---- MODULE Spec2Model ----
(***************************************************************************)
(* gqlgen (src/index.js): a command line tool that introspects a GraphQL   *)
(* schema, lists its queries and mutations and generates one query         *)
(* document per requested operation.                                       *)
(*                                                                         *)
(* JavaScript strings are modelled as sequences of one-character strings,  *)
(* so that charAt, slice, concatenation and join are computed as the code  *)
(* computes them.  URLs and AST node kinds are never taken apart by the    *)
(* code and stay atomic strings.                                           *)
(***************************************************************************)
EXTENDS Integers, Sequences, FiniteSets, TLC

VARIABLES
  pc,         \* position of the run (of the command handler, or of the function applied)
  argv,       \* the parsed command line: command, url, type, operations, write
  schema,     \* the DocumentNode served by the endpoint / given to findOperationsAndTypes
  requests,   \* the URLs the run has sent an introspection request to, in order
  stdout,     \* what the run has printed, in order
  fs,         \* the working directory: file name -> content
  cwd0,       \* the working directory as the run found it
  writes,     \* the writeFileSync calls of the run, in order
  nodes,      \* the artifacts of the generate handler
  found,      \* the result of findOperationsAndTypes
  operation,  \* the operation given to generateCodeForOperation
  types,      \* the type catalog given to generateCodeForOperation
  maxFieldsSelectionDepth,  \* the third parameter of generateCodeForOperation
  text,       \* the result of generateCodeForOperation
  code,       \* the array code of generateCodeForOperation while selectFields runs
  stack       \* the call stack of selectFields: one frame per active forEach

vars == <<pc, argv, schema, requests, stdout, fs, cwd0, writes, nodes, found,
          operation, types, maxFieldsSelectionDepth, text, code, stack>>

(***************************************************************************)
(* Bounds of the model.                                                    *)
(***************************************************************************)
\* the longest list of requested operation names
MaxOperations == 2
\* the largest maximum depth generateCodeForOperation is applied with
MaxDepth == 2
\* the longest field list of a catalog type
MaxFields == 2
\* the longest schema document given to findOperationsAndTypes
MaxDefinitions == 3

(***************************************************************************)
(* String literals of the source.                                          *)
(***************************************************************************)
\* the back quote character (U+0060), which a TLA+ string cannot hold
BackQuote == "BACKQUOTE"
sImport == <<"i", "m", "p", "o", "r", "t", " ", "g", "q", "l", " ", "f", "r", "o", "m", " ",
             "\"", "g", "r", "a", "p", "h", "q", "l", "-", "t", "a", "g", "\"", ";">>
sExport == <<"e", "x", "p", "o", "r", "t", " ", "d", "e", "f", "a", "u", "l", "t", " ",
             "g", "q", "l", BackQuote>>
sQueryKind == <<"q", "u", "e", "r", "y">>
sMutationKind == <<"m", "u", "t", "a", "t", "i", "o", "n">>
sQuery == <<"Q", "u", "e", "r", "y">>
sMutation == <<"M", "u", "t", "a", "t", "i", "o", "n">>
sDotTs == <<".", "t", "s">>
sComment == <<"/", "/", " ">>
sLocalhost == "http://localhost:25202/"

LowerCase == <<"a", "b", "c", "d", "e", "f", "g", "h", "i", "j", "k", "l", "m",
               "n", "o", "p", "q", "r", "s", "t", "u", "v", "w", "x", "y", "z">>
UpperCase == <<"A", "B", "C", "D", "E", "F", "G", "H", "I", "J", "K", "L", "M",
               "N", "O", "P", "Q", "R", "S", "T", "U", "V", "W", "X", "Y", "Z">>

\* String.prototype.toUpperCase on one character
toUpperCase(c) ==
  IF \E i \in DOMAIN LowerCase : LowerCase[i] = c
  THEN UpperCase[CHOOSE i \in DOMAIN LowerCase : LowerCase[i] = c]
  ELSE c

\* input.charAt(0).toUpperCase() + input.slice(1)
upperFirst(input) ==
  IF input = <<>> THEN <<>> ELSE <<toUpperCase(input[1])>> \o Tail(input)

\* Array.prototype.join, computed by halves
RECURSIVE joinRange(_, _, _, _)
joinRange(lines, sep, lo, hi) ==
  IF lo > hi THEN <<>>
  ELSE IF lo = hi THEN lines[lo]
  ELSE LET mid == (lo + hi) \div 2 IN
       joinRange(lines, sep, lo, mid) \o sep \o joinRange(lines, sep, mid + 1, hi)

join(lines, sep) == joinRange(lines, sep, 1, Len(lines))

(***************************************************************************)
(* AST nodes.  A TypeNode is NamedType(name), ListType(type) or            *)
(* NonNullType(type); a FieldDefinitionNode has a name, arguments and a    *)
(* type; an ObjectTypeDefinitionNode has a name and fields.                *)
(***************************************************************************)
NamedType(n) == [kind |-> "NamedType", name |-> n]
ListType(t) == [kind |-> "ListType", type |-> t]
NonNullType(t) == [kind |-> "NonNullType", type |-> t]
FieldDefinition(n, args, t) == [name |-> n, arguments |-> args, type |-> t]
InputValueDefinition(n, t) == [name |-> n, type |-> t]
ObjectTypeDefinition(n, fields) == [name |-> n, fields |-> fields]

\* getTypeName: the underlying type name, or the type as written when
\* forQueryDefinition
RECURSIVE getTypeName(_, _)
getTypeName(node, forQueryDefinition) ==
  IF forQueryDefinition /\ node.kind = "NonNullType"
    THEN getTypeName(node.type, forQueryDefinition) \o <<"!">>
  ELSE IF forQueryDefinition /\ node.kind = "ListType"
    THEN <<"[">> \o getTypeName(node.type, forQueryDefinition) \o <<"]">>
  ELSE IF node.kind = "NonNullType" THEN getTypeName(node.type, forQueryDefinition)
  ELSE IF node.kind = "ListType" THEN getTypeName(node.type, forQueryDefinition)
  ELSE IF node.kind = "NamedType" THEN node.name
  ELSE <<>>

(***************************************************************************)
(* findOperationsAndTypes.  A Map is a function from its keys; Map.set     *)
(* replaces the value of a key that is already there.                      *)
(***************************************************************************)
emptyMap == [k \in {} |-> <<>>]

\* a set that keeps the value of a key that is already there
mapSetIfAbsent(m, key, value) ==
  [k \in DOMAIN m \cup {key} |-> IF k \in DOMAIN m THEN m[k] ELSE value]

mapSet(m, key, value) ==
  [k \in DOMAIN m \cup {key} |-> IF k = key THEN value ELSE m[k]]

\* node.name.value === "Mutation" || node.name.value === "Query"
isQueryOrMutation(name) == name = sMutation \/ name = sQuery

\* node.name.value === "Mutation" ? "mutation" : "query"
kindOf(name) == IF name = sMutation THEN sMutationKind ELSE sQueryKind

\* node.fields.forEach((field) => operations.push({kind, name, astValue}))
pushOperations(operations, node) ==
  operations \o [i \in 1 .. Len(node.fields) |->
                   [kind |-> kindOf(node.name),
                    name |-> node.fields[i].name,
                    astValue |-> node.fields[i]]]

\* graphqlLanguage.visit with the ObjectTypeDefinition visitor, over the
\* definitions of the document in order
RECURSIVE visit(_, _, _)
visit(definitions, operations, catalog) ==
  IF definitions = <<>> THEN [operations |-> operations, types |-> catalog]
  ELSE LET node == Head(definitions) IN
    IF node.kind # "ObjectTypeDefinition"
      THEN visit(Tail(definitions), operations, catalog)
    ELSE IF isQueryOrMutation(node.name)
      THEN visit(Tail(definitions), pushOperations(operations, node), catalog)
    ELSE visit(Tail(definitions), operations, mapSet(catalog, node.name, node.fields))

findOperationsAndTypes(document) == visit(document, <<>>, emptyMap)

(***************************************************************************)
(* generateCodeForOperation.  The array code is a sequence of lines.       *)
(***************************************************************************)
\* operation.astValue.arguments && operation.astValue.arguments.length > 0
hasArguments(op) == Len(op.astValue.arguments) > 0

\* arguments.map((arg) => "$name: Type").join(",")
argumentsDefinition(arguments) ==
  join([i \in 1 .. Len(arguments) |->
          <<"$">> \o arguments[i].name \o <<":", " ">>
                  \o getTypeName(arguments[i].type, TRUE)], <<",">>)

\* the usage list without its last argument
argumentsUsageShort(arguments) ==
  join([i \in 1 .. Len(arguments) - 1 |->
          arguments[i].name \o <<":", " ", "$">> \o arguments[i].name], <<",">>)

\* arguments.map((arg) => "name: $name").join(",")
argumentsUsage(arguments) ==
  join([i \in 1 .. Len(arguments) |->
          arguments[i].name \o <<":", " ", "$">> \o arguments[i].name], <<",">>)

\* the type name with its wrappers kept
bareTypeNameWrapped(type) == getTypeName(type, TRUE)

\* getTypeName(field.type, false)
bareTypeName(type) == getTypeName(type, FALSE)

\* the comparison off by one
belowMaxDepthInclusive(depth, max) == depth <= max

\* no depth guard
belowMaxDepthAlways(depth, max) == TRUE

\* depth < maxFieldsSelectionDepth
belowMaxDepth(depth, max) == depth < max

\* selectFields(types, field, code, depth): the lines it pushes.
\* selectEach is the forEach over a field list.
RECURSIVE selectFields(_, _, _, _)
RECURSIVE selectEach(_, _, _, _)
selectFields(catalog, field, depth, max) ==
  LET fieldType == bareTypeName(field.type)
      fieldName == field.name
  IN IF fieldType \notin DOMAIN catalog THEN <<fieldName>>
     ELSE <<fieldName>> \o
          (IF belowMaxDepth(depth, max)
             THEN << <<"{">> >> \o selectEach(catalog, catalog[fieldType], depth + 1, max)
                  \o << <<"}">> >>
             ELSE <<>>)

selectEach(catalog, fields, depth, max) ==
  IF fields = <<>> THEN <<>>
  ELSE selectFields(catalog, Head(fields), depth, max)
       \o selectEach(catalog, Tail(fields), depth, max)

\* the lines pushed before the fields selection
codeHead(op) ==
  << sImport, <<>>, sExport, op.kind \o <<" ">> \o upperFirst(op.name) >>
  \o (IF hasArguments(op)
        THEN << <<"(">>, argumentsDefinition(op.astValue.arguments), <<")">> >>
        ELSE <<>>)
  \o << <<"{">>, op.name >>
  \o (IF hasArguments(op)
        THEN << <<"(">>, argumentsUsage(op.astValue.arguments), <<")">> >>
        ELSE <<>>)

\* the lines pushed after the fields selection
codeTail == << <<"}">>, <<BackQuote>>, <<>> >>

\* the array code when generateCodeForOperation joins it
codeLines(op, catalog, max) ==
  LET returnType == bareTypeName(op.astValue.type) IN
  codeHead(op)
  \o (IF returnType \in DOMAIN catalog
        THEN << <<"{">> >> \o selectEach(catalog, catalog[returnType], 0, max)
             \o << <<"}">> >>
        ELSE <<>>)
  \o codeTail

(***************************************************************************)
(* prettier.format is the external formatter.  It changes the layout only  *)
(* (white space, line breaks and the commas GraphQL ignores) and ends the  *)
(* statement with a semicolon.  Formatted text is represented up to        *)
(* layout, as its sequence of tokens.                                      *)
(***************************************************************************)
Ignored == {" ", "\n", ","}
Punctuators == {"{", "}", "(", ")", ":", "$", "!", "[", "]", "\"", ";", BackQuote}

isNameChar(c) == c \notin Ignored /\ c \notin Punctuators

\* the tokens of source[lo .. hi], computed by halves: a name cut by the
\* middle is put together again
RECURSIVE tokenize(_, _, _)
tokenize(source, lo, hi) ==
  IF lo > hi THEN <<>>
  ELSE IF lo = hi
    THEN IF source[lo] \in Ignored THEN <<>> ELSE << <<source[lo]>> >>
  ELSE LET mid == (lo + hi) \div 2
           left == tokenize(source, lo, mid)
           right == tokenize(source, mid + 1, hi)
       IN IF isNameChar(source[mid]) /\ isNameChar(source[mid + 1])
            THEN SubSeq(left, 1, Len(left) - 1)
                 \o << left[Len(left)] \o right[1] >> \o Tail(right)
            ELSE left \o right

prettierFormat(source) ==
  LET tokens == tokenize(source, 1, Len(source)) IN
  IF tokens # <<>> /\ tokens[Len(tokens)] # <<";">> THEN Append(tokens, <<";">>)
  ELSE tokens

generateCodeForOperation(op, catalog, max) ==
  prettierFormat(join(codeLines(op, catalog, max), <<"\n">>))

\* the default value of the parameter maxFieldsSelectionDepth
DefaultMaxDepth == 2

(***************************************************************************)
(* The command handlers of main.                                           *)
(***************************************************************************)
\* the URL fetchSchemaWithIntrospection sends the introspection query to
fetchSchemaUrl(url) == sLocalhost

\* a length test that never holds
noOperationsNever(args) == Len(args.operations) < 0

\* argv.operations.length === 0
noOperations(args) == Len(args.operations) = 0

\* argv.operations.includes(name)
includes(names, name) == \E i \in DOMAIN names : names[i] = name

\* the name test alone, the kind forgotten
matchesRequestAnyKind(op, args) == includes(args.operations, op.name)

\* operation.kind === argv.type && argv.operations.includes(operation.name)
matchesRequest(op, args) == op.kind = args.type /\ includes(args.operations, op.name)

\* the artifact the map callback builds for one operation
artifact(op, catalog) ==
  LET name == upperFirst(op.name) \o upperFirst(op.kind) IN
  [name |-> name,
   fileName |-> name \o sDotTs,
   code |-> generateCodeForOperation(op, catalog, DefaultMaxDepth)]

\* operations.filter(...).map(...)
generateNodes(operations, catalog, args) ==
  LET kept == SelectSeq(operations, LAMBDA op : matchesRequest(op, args)) IN
  [i \in 1 .. Len(kept) |-> artifact(kept[i], catalog)]

\* some in place of every
isSafeToWriteSome(artifacts, disk) ==
  \E i \in DOMAIN artifacts : artifacts[i].fileName \notin DOMAIN disk

\* nodes.every(({ fileName }) => !existsSync(fileName))
isSafeToWrite(artifacts, disk) ==
  \A i \in DOMAIN artifacts : artifacts[i].fileName \notin DOMAIN disk

\* nodes.forEach(({ fileName, code }) => { writeFileSync; console.log })
RECURSIVE writeNodes(_, _, _, _)
writeNodes(artifacts, disk, log, out) ==
  IF artifacts = <<>> THEN [fs |-> disk, writes |-> log, stdout |-> out]
  ELSE LET n == Head(artifacts) IN
    writeNodes(Tail(artifacts),
               mapSet(disk, n.fileName, n.code),
               Append(log, [fileName |-> n.fileName, code |-> n.code,
                            existed |-> n.fileName \in DOMAIN disk]),
               Append(out, [call |-> "console.log",
                            line |-> <<"W", "r", "i", "t", "t", "e", "n", " ", "t", "o", " ">>
                                     \o n.fileName]))

\* nodes.forEach(({ fileName, code }) => { console.log; process.stdout.write })
RECURSIVE printNodes(_, _)
printNodes(artifacts, out) ==
  IF artifacts = <<>> THEN out
  ELSE LET n == Head(artifacts) IN
    printNodes(Tail(artifacts),
               out \o << [call |-> "console.log", line |-> sComment \o n.fileName],
                         [call |-> "process.stdout.write", line |-> n.code] >>)

\* queries.forEach / mutations.forEach of the list handler
printNames(operations, filter) ==
  LET kept == SelectSeq(operations, LAMBDA op : op.kind = filter) IN
  [i \in 1 .. Len(kept) |-> [call |-> "console.log", line |-> kept[i].name]]

(***************************************************************************)
(* The inputs the model draws from.                                        *)
(***************************************************************************)
tString == <<"S", "t", "r", "i", "n", "g">>
tInt == <<"I", "n", "t">>
tA == <<"A">>
tB == <<"B">>
nNow == <<"n", "o", "w">>
nNowUpper == <<"N", "o", "w">>
nGet == <<"g", "e", "t">>
nNone == <<"z">>

argX == InputValueDefinition(<<"x">>, NonNullType(NamedType(tInt)))
argY == InputValueDefinition(<<"y">>, ListType(NonNullType(NamedType(tString))))

fieldA == FieldDefinition(<<"a">>, <<>>, NamedType(tA))
fieldB == FieldDefinition(<<"b">>, <<>>, NonNullType(ListType(NonNullType(NamedType(tB)))))
fieldS == FieldDefinition(<<"s">>, <<>>, NamedType(tString))
FieldPool == {fieldA, fieldB, fieldS}

\* the sequences of at most n distinct elements of S
SeqsUpTo(S, n) == UNION {[1 .. k -> S] : k \in 0 .. n}
DistinctSeqsUpTo(S, n) ==
  {q \in SeqsUpTo(S, n) : \A i, j \in DOMAIN q : i # j => q[i] # q[j]}

ObjectType(n, fields) == [kind |-> "ObjectTypeDefinition", name |-> n, fields |-> fields]

\* the schemas the endpoint may serve
opNow == FieldDefinition(nNow, <<>>, NamedType(tString))
opNowUpper == FieldDefinition(nNowUpper, <<>>, NamedType(tString))
opGet == FieldDefinition(nGet, <<argX, argY>>, NonNullType(NamedType(tA)))
QueryFieldLists == {<<opNow>>, <<opNow, opNowUpper>>, <<opGet, opNow>>}
MutationDefinitions ==
  {<<>>, <<ObjectType(sMutation, <<opNow>>)>>, <<ObjectType(sMutation, <<opGet, opNowUpper>>)>>}
ServedSchemas ==
  {<<ObjectType(sQuery, q)>> \o m
     \o <<ObjectType(tA, <<fieldS, fieldA, fieldB>>), ObjectType(tB, <<fieldS>>)>> :
     q \in QueryFieldLists, m \in MutationDefinitions}

Urls == {sLocalhost, "http://example.com/graphql"}
Kinds == {sQueryKind, sMutationKind}
RequestedNames == {nNow, nNowUpper, nGet, nNone}
fileNowQuery == upperFirst(nNow) \o upperFirst(sQueryKind) \o sDotTs
fileNowMutation == upperFirst(nNow) \o upperFirst(sMutationKind) \o sDotTs
oldContent == << <<"o", "l", "d">> >>
Directories == {[f \in d |-> oldContent] : d \in SUBSET {fileNowQuery, fileNowMutation}}

Commands ==
  {[command |-> "list", url |-> u, filter |-> k] : u \in Urls, k \in Kinds}
  \cup {[command |-> "generate", url |-> u, type |-> k, operations |-> o, write |-> w] :
          u \in Urls, k \in Kinds, o \in SeqsUpTo(RequestedNames, MaxOperations),
          w \in BOOLEAN}

none == <<>>

Init ==
  /\ pc = "start"
  /\ argv \in Commands
  /\ schema \in ServedSchemas
  /\ cwd0 \in Directories
  /\ fs = cwd0
  /\ requests = <<>>
  /\ stdout = <<>>
  /\ writes = <<>>
  /\ nodes = <<>>
  /\ found = none
  /\ operation = none /\ types = none /\ maxFieldsSelectionDepth = DefaultMaxDepth
  /\ text = none /\ code = none /\ stack = none

\* the list handler up to its await: fetchSchemaWithIntrospection sends the request
ListRequest ==
  /\ pc = "start" /\ argv.command = "list"
  /\ requests' = Append(requests, fetchSchemaUrl(argv.url))
  /\ pc' = "list_await"
  /\ UNCHANGED <<argv, schema, stdout, fs, cwd0, writes, nodes, found,
                 operation, types, maxFieldsSelectionDepth, text, code, stack>>

\* the list handler after its await
ListRespond ==
  /\ pc = "list_await"
  /\ LET result == findOperationsAndTypes(schema) IN
     /\ found' = result
     /\ stdout' = stdout \o printNames(result.operations, argv.filter)
  /\ pc' = "done"
  /\ UNCHANGED <<argv, schema, requests, fs, cwd0, writes, nodes,
                 operation, types, maxFieldsSelectionDepth, text, code, stack>>

\* the generate handler up to its await, or to its early return
GenerateRequest ==
  /\ pc = "start" /\ argv.command = "generate"
  /\ IF noOperations(argv)
       THEN pc' = "done" /\ UNCHANGED requests
       ELSE /\ requests' = Append(requests, fetchSchemaUrl(argv.url))
            /\ pc' = "generate_await"
  /\ UNCHANGED <<argv, schema, stdout, fs, cwd0, writes, nodes, found,
                 operation, types, maxFieldsSelectionDepth, text, code, stack>>

\* the generate handler after its await
GenerateRespond ==
  /\ pc = "generate_await"
  /\ LET result == findOperationsAndTypes(schema)
         artifacts == generateNodes(result.operations, result.types, argv)
     IN /\ found' = result
        /\ nodes' = artifacts
        /\ IF argv.write
             THEN IF isSafeToWrite(artifacts, fs)
                    THEN LET done == writeNodes(artifacts, fs, writes, stdout) IN
                         fs' = done.fs /\ writes' = done.writes /\ stdout' = done.stdout
                    ELSE UNCHANGED <<fs, writes, stdout>>
             ELSE stdout' = printNodes(artifacts, stdout) /\ UNCHANGED <<fs, writes>>
  /\ pc' = "done"
  /\ UNCHANGED <<argv, schema, requests, cwd0,
                 operation, types, maxFieldsSelectionDepth, text, code, stack>>

\* the request or the conversion of its response throws: the run ends
FetchFails ==
  /\ pc \in {"list_await", "generate_await"}
  /\ pc' = "failed"
  /\ UNCHANGED <<argv, schema, requests, stdout, fs, cwd0, writes, nodes, found,
                 operation, types, maxFieldsSelectionDepth, text, code, stack>>

Next == ListRequest \/ ListRespond \/ GenerateRequest \/ GenerateRespond \/ FetchFails

Spec == Init /\ [][Next]_vars

(***************************************************************************)
(* Properties of the command handlers (specification Spec).                *)
(***************************************************************************)
isGenerate == argv.command = "generate"
Targets == {nodes[i].fileName : i \in DOMAIN nodes}
WrittenFiles == {writes[j].fileName : j \in DOMAIN writes}

\* C2: in generate --write, if no target file name exists every artifact of
\* the batch is written, and if any target exists no file is written and
\* the directory is left as found; the files written are the whole batch or
\* none, and the skipped run ends without error.
C2_AllOrNothing ==
  /\ (pc = "done" /\ isGenerate /\ argv.write) =>
       /\ (Targets \cap DOMAIN cwd0 = {}) =>
            /\ Len(writes) = Len(nodes)
            /\ \A i \in DOMAIN nodes :
                 writes[i].fileName = nodes[i].fileName /\ writes[i].code = nodes[i].code
            /\ \A f \in Targets :
                 f \in DOMAIN fs /\ \E i \in DOMAIN nodes :
                   nodes[i].fileName = f /\ fs[f] = nodes[i].code
            /\ \A f \in DOMAIN cwd0 : f \in DOMAIN fs /\ fs[f] = cwd0[f]
       /\ (Targets \cap DOMAIN cwd0 # {}) => (writes = <<>> /\ fs = cwd0)
       /\ WrittenFiles \in {Targets, {}}
  /\ (isGenerate /\ pc \notin {"done"}) => (writes = <<>> /\ fs = cwd0 /\ nodes = <<>>)

\* C2 witness: a batch of two targets, one present and one absent, was skipped whole
C2_Witness ==
  /\ pc = "done" /\ isGenerate /\ argv.write
  /\ Len(nodes) = 2
  /\ nodes[1].fileName \notin DOMAIN cwd0 /\ nodes[2].fileName \in DOMAIN cwd0
  /\ writes = <<>> /\ fs = cwd0

\* the indexes of the descriptors of the requested kind whose name is requested
Requested ==
  {i \in DOMAIN found.operations :
     /\ found.operations[i].kind = argv.type
     /\ \E j \in DOMAIN argv.operations : argv.operations[j] = found.operations[i].name}

\* the k-th smallest element of a set of numbers
Kth(S, k) == CHOOSE x \in S : Cardinality({y \in S : y < x}) = k - 1

\* C4: the artifacts of generate are exactly one per descriptor of the
\* requested kind whose name is requested, in the descriptors' order; a name
\* that matches no descriptor of that kind adds nothing and stops nothing.
C4_ExactMatches ==
  (pc = "done" /\ isGenerate /\ argv.operations # <<>>) =>
    /\ Len(nodes) = Cardinality(Requested)
    /\ \A k \in DOMAIN nodes :
         LET op == found.operations[Kth(Requested, k)] IN
         /\ nodes[k].name = upperFirst(op.name) \o upperFirst(op.kind)
         /\ nodes[k].fileName = nodes[k].name \o sDotTs

\* C4 witness: a requested name exists only under the other kind, another
\* requested operation was generated, and the run ended without error
C4_Witness ==
  /\ pc = "done" /\ isGenerate
  /\ Len(nodes) = 1
  /\ \E j \in DOMAIN argv.operations :
       /\ \E i \in DOMAIN found.operations :
            found.operations[i].name = argv.operations[j]
            /\ found.operations[i].kind # argv.type
       /\ \A i \in DOMAIN found.operations :
            found.operations[i].name = argv.operations[j]
            => found.operations[i].kind # argv.type

\* C5: no write is performed on a file name that exists at the moment of the
\* write, also when the derived file names of a batch coincide.
C5_NeverOverwrites == \A j \in DOMAIN writes : ~writes[j].existed

\* C7: generate with an empty operations list ends without a request,
\* without output and without a write.
C7_EmptyIsNoOp ==
  (isGenerate /\ argv.operations = <<>>) =>
    /\ pc \in {"start", "done"}
    /\ requests = <<>> /\ stdout = <<>> /\ writes = <<>> /\ fs = cwd0

\* C7 witness: such a run has ended
C7_Witness == isGenerate /\ argv.operations = <<>> /\ pc = "done" /\ argv.write

\* C8: a run of list, or of generate with operations, sends exactly one
\* request, to the URL given as <url>.
C8_RequestGoesToUrl ==
  (pc # "start" /\ (~isGenerate \/ argv.operations # <<>>)) => requests = <<argv.url>>

(***************************************************************************)
(* findOperationsAndTypes applied to a document (specification             *)
(* SpecCatalog).                                                           *)
(***************************************************************************)
DefinitionPool ==
  {ObjectType(n, f) : n \in {sQuery, sMutation, tA, sQueryKind},
                      f \in {<<>>, <<fieldS>>, <<fieldA, fieldS>>}}
  \cup {[kind |-> "InputObjectTypeDefinition", name |-> tA, fields |-> <<fieldS>>]}
Documents == SeqsUpTo(DefinitionPool, MaxDefinitions)

InitCatalog ==
  /\ pc = "start"
  /\ schema \in Documents
  /\ found = none
  /\ argv = none /\ cwd0 = none /\ fs = none /\ requests = <<>> /\ stdout = <<>>
  /\ writes = <<>> /\ nodes = <<>>
  /\ operation = none /\ types = none /\ maxFieldsSelectionDepth = DefaultMaxDepth
  /\ text = none /\ code = none /\ stack = none

FindOperationsAndTypes ==
  /\ pc = "start"
  /\ found' = findOperationsAndTypes(schema)
  /\ pc' = "done"
  /\ UNCHANGED <<argv, schema, requests, stdout, fs, cwd0, writes, nodes,
                 operation, types, maxFieldsSelectionDepth, text, code, stack>>

NextCatalog == FindOperationsAndTypes

SpecCatalog == InitCatalog /\ [][NextCatalog]_vars

isObject(i) == schema[i].kind = "ObjectTypeDefinition"
isRoot(i) == isObject(i) /\ schema[i].name \in {sQuery, sMutation}

\* the number of fields of the root definitions before definition i
RECURSIVE FieldsBefore(_)
FieldsBefore(i) ==
  IF i <= 1 THEN 0
  ELSE FieldsBefore(i - 1) + (IF isRoot(i - 1) THEN Len(schema[i - 1].fields) ELSE 0)

\* C6: the operations are one descriptor per field of each definition named
\* exactly Query or Mutation, of the kind of its root, in declaration order;
\* the catalog's keys are the names of the other object types, each mapped
\* to the fields of the last definition of that name.
C6_OperationsAndCatalog ==
  pc = "done" =>
    /\ Len(found.operations) = FieldsBefore(Len(schema) + 1)
    /\ \A i \in DOMAIN schema : isRoot(i) =>
         \A f \in DOMAIN schema[i].fields :
           found.operations[FieldsBefore(i) + f] =
             [kind |-> IF schema[i].name = sMutation THEN sMutationKind ELSE sQueryKind,
              name |-> schema[i].fields[f].name,
              astValue |-> schema[i].fields[f]]
    /\ DOMAIN found.types = {schema[i].name : i \in {j \in DOMAIN schema : isObject(j) /\ ~isRoot(j)}}
    /\ sQuery \notin DOMAIN found.types /\ sMutation \notin DOMAIN found.types
    /\ \A i \in DOMAIN schema : (isObject(i) /\ ~isRoot(i)) =>
         ((\A j \in DOMAIN schema : (j > i /\ isObject(j)) => schema[j].name # schema[i].name)
            => found.types[schema[i].name] = schema[i].fields)

\* C6 witness: a type defined twice with different fields, between roots
C6_Witness ==
  /\ pc = "done" /\ found.operations # <<>>
  /\ \E i, j \in DOMAIN schema :
       /\ i < j /\ isObject(i) /\ isObject(j) /\ ~isRoot(i)
       /\ schema[i].name = schema[j].name /\ schema[i].fields # schema[j].fields

(***************************************************************************)
(* generateCodeForOperation applied to an operation and a catalog          *)
(* (specification SpecSynth).                                              *)
(***************************************************************************)
FieldLists == DistinctSeqsUpTo(FieldPool, MaxFields)
Catalogs == [{tA} -> FieldLists] \cup [{tA, tB} -> FieldLists]
ArgumentLists == {<<>>, <<argX>>, <<argX, argY>>, <<argY, argX>>}
ReturnTypes == {NamedType(tString), NamedType(tA), ListType(NonNullType(NamedType(tB)))}
Operations ==
  {[kind |-> sQueryKind, name |-> nGet, astValue |-> FieldDefinition(nGet, a, t)] :
     a \in ArgumentLists, t \in ReturnTypes}

InitSynth ==
  /\ pc = "start"
  /\ operation \in Operations
  /\ types \in Catalogs
  /\ maxFieldsSelectionDepth \in 0 .. MaxDepth
  /\ text = none
  /\ argv = none /\ schema = none /\ cwd0 = none /\ fs = none /\ requests = <<>>
  /\ stdout = <<>> /\ writes = <<>> /\ nodes = <<>> /\ found = none
  /\ code = none /\ stack = none

GenerateCode ==
  /\ pc = "start"
  /\ text' = generateCodeForOperation(operation, types, maxFieldsSelectionDepth)
  /\ pc' = "done"
  /\ UNCHANGED <<argv, schema, requests, stdout, fs, cwd0, writes, nodes, found,
                 operation, types, maxFieldsSelectionDepth, code, stack>>

NextSynth == GenerateCode

SpecSynth == InitSynth /\ [][NextSynth]_vars

(***************************************************************************)
(* Reading a generated text back: the two parenthesized lists and the      *)
(* tree of the selection.                                                  *)
(***************************************************************************)
\* the first position at or after from that holds token t, 0 when there is none
FirstAt(tokens, t, from) ==
  IF \E i \in from .. Len(tokens) : tokens[i] = t
  THEN CHOOSE i \in from .. Len(tokens) :
         tokens[i] = t /\ \A j \in from .. (i - 1) : tokens[j] # t
  ELSE 0

\* the parenthesized list that starts at position p, if one starts there
GroupAt(tokens, p) ==
  IF p <= Len(tokens) /\ tokens[p] = <<"(">>
  THEN LET close == FirstAt(tokens, <<")">>, p) IN
       [present |-> TRUE, body |-> SubSeq(tokens, p + 1, close - 1), next |-> close + 1]
  ELSE [present |-> FALSE, body |-> <<>>, next |-> p]

\* body cut into the entries that start at the positions of starts
EntriesAt(body, starts) ==
  [k \in 1 .. Cardinality(starts) |->
     LET from == Kth(starts, k)
         to == IF k = Cardinality(starts) THEN Len(body) ELSE Kth(starts, k + 1) - 1
     IN SubSeq(body, from, to)]

\* the position of the operation's kind: the token after the opening back quote
KindAt(tokens) == FirstAt(tokens, <<BackQuote>>, 1) + 1

\* the variable declarations: the list after the operation's name
Declarations(tokens) ==
  LET g == GroupAt(tokens, KindAt(tokens) + 2) IN
  [present |-> g.present, next |-> g.next,
   entries |-> EntriesAt(g.body, {i \in DOMAIN g.body : g.body[i] = <<"$">>})]

\* the position of the root field's name
RootAt(tokens) == Declarations(tokens).next + 1

\* the argument bindings: the list after the root field's name
Bindings(tokens) ==
  LET g == GroupAt(tokens, RootAt(tokens) + 1) IN
  [present |-> g.present, next |-> g.next,
   entries |-> EntriesAt(g.body, {i \in DOMAIN g.body :
                                    i < Len(g.body) /\ g.body[i + 1] = <<":">>})]

\* the fields from position i to the brace that closes their block: each
\* with its name, whether a block follows it, and the fields of that block
RECURSIVE ParseFields(_, _)
ParseFields(tokens, i) ==
  IF i > Len(tokens) THEN [fields |-> <<>>, next |-> i]
  ELSE IF tokens[i] = <<"}">> THEN [fields |-> <<>>, next |-> i + 1]
  ELSE LET afterName == GroupAt(tokens, i + 1).next
           block == afterName <= Len(tokens) /\ tokens[afterName] = <<"{">>
           inner == IF block THEN ParseFields(tokens, afterName + 1)
                    ELSE [fields |-> <<>>, next |-> afterName]
           rest == ParseFields(tokens, inner.next)
       IN [fields |-> << [name |-> tokens[i], block |-> block, fields |-> inner.fields] >>
                      \o rest.fields,
           next |-> rest.next]

\* the fields of the operation's selection: the root field alone
RootSelection(tokens) == ParseFields(tokens, RootAt(tokens))

\* the number of blocks nested one inside another beneath a field
RECURSIVE Nesting(_)
Max(S) == CHOOSE x \in S : \A y \in S : y <= x
Nesting(field) ==
  IF ~field.block THEN 0
  ELSE 1 + Max({0} \cup {Nesting(field.fields[i]) : i \in DOMAIN field.fields})

(***************************************************************************)
(* Properties of generateCodeForOperation (specification SpecSynth).       *)
(***************************************************************************)
returnsObject == bareTypeName(operation.astValue.type) \in DOMAIN types
rootField == RootSelection(text).fields[1]

\* C1 as claimed: with the default maximum depth 2, beneath the root field
\* name at most 2 blocks are nested one inside another.
C1_AtMostMaxDepthBlocks ==
  (pc = "done" /\ returnsObject /\ maxFieldsSelectionDepth = DefaultMaxDepth)
    => Nesting(rootField) <= DefaultMaxDepth

\* C1 amended: beneath the root field name at most maxFieldsSelectionDepth + 1
\* blocks are nested one inside another: the block of the root field and
\* one block per depth 0 .. maxFieldsSelectionDepth - 1.
C1_AtMostMaxDepthPlusOneBlocks ==
  (pc = "done" /\ returnsObject) => Nesting(rootField) <= maxFieldsSelectionDepth + 1

\* C1 witness: with the default depth the bound is met
C1_Witness ==
  /\ pc = "done" /\ returnsObject /\ maxFieldsSelectionDepth = DefaultMaxDepth
  /\ Nesting(rootField) = DefaultMaxDepth + 1

\* C3: the declaration list and the binding list hold one entry per
\* argument, in declaration order; every bound variable is declared; with
\* no arguments neither list is there.
C3_ArgumentLists ==
  pc = "done" =>
    LET arguments == operation.astValue.arguments
        N == Len(arguments)
        d == Declarations(text)
        b == Bindings(text)
    IN /\ d.present <=> N > 0
       /\ b.present <=> N > 0
       /\ Len(d.entries) = N /\ Len(b.entries) = N
       /\ \A i \in 1 .. N :
            /\ Len(d.entries[i]) > 3
            /\ SubSeq(d.entries[i], 1, 3) = << <<"$">>, arguments[i].name, <<":">> >>
            /\ b.entries[i] = << arguments[i].name, <<":">>, <<"$">>, arguments[i].name >>
       /\ \A i \in 1 .. N : \E j \in 1 .. N : d.entries[j][2] = b.entries[i][4]
       /\ text[RootAt(text)] = operation.name

\* C3 witness: an operation with two arguments was generated
C3_Witness ==
  /\ pc = "done" /\ Len(operation.astValue.arguments) = 2
  /\ Len(Bindings(text).entries) = 2

\* a field list rendered as the claim says: names in declaration order, a
\* block exactly after the fields whose bare type is a catalog key at a
\* depth below the maximum, holding the fields of that type
RECURSIVE Conforms(_, _, _)
Conforms(parsed, declared, depth) ==
  /\ Len(parsed) = Len(declared)
  /\ \A i \in DOMAIN declared :
       LET bare == getTypeName(declared[i].type, FALSE) IN
       /\ parsed[i].name = declared[i].name
       /\ parsed[i].block <=> (bare \in DOMAIN types /\ depth < maxFieldsSelectionDepth)
       /\ parsed[i].block => Conforms(parsed[i].fields, types[bare], depth + 1)

\* C9: a field name is followed by a block iff its bare type is a catalog
\* key and it is the root field or its depth is below the maximum; the
\* block holds the fields of the type, each once, in declaration order.
C9_BlocksExactly ==
  pc = "done" =>
    LET bare == getTypeName(operation.astValue.type, FALSE) IN
    /\ Len(RootSelection(text).fields) = 1
    /\ rootField.name = operation.name
    /\ rootField.block <=> bare \in DOMAIN types
    /\ rootField.block => Conforms(rootField.fields, types[bare], 0)

\* C9 witness: a wrapped object-typed field is expanded below the maximum
\* depth and left bare at it
C9_Witness ==
  /\ pc = "done" /\ returnsObject /\ maxFieldsSelectionDepth = 1
  /\ \E i \in DOMAIN rootField.fields :
       /\ rootField.fields[i].name = fieldB.name /\ rootField.fields[i].block
       /\ \E j \in DOMAIN rootField.fields[i].fields :
            /\ ~rootField.fields[i].fields[j].block
            /\ rootField.fields[i].fields[j].name \in {fieldA.name, fieldB.name}

(***************************************************************************)
(* The recursion of selectFields, one call at a time (specification        *)
(* SpecSelect).  A frame of the stack is one forEach in progress: the      *)
(* fields it has still to visit and the depth it passes to selectFields.   *)
(***************************************************************************)
\* the deepest stack the model follows
MaxStack == MaxDepth + 3

InitSelect ==
  /\ pc = "start"
  /\ operation \in Operations
  /\ types \in Catalogs
  /\ maxFieldsSelectionDepth \in 0 .. MaxDepth
  /\ code = <<>> /\ stack = <<>> /\ text = none
  /\ argv = none /\ schema = none /\ cwd0 = none /\ fs = none /\ requests = <<>>
  /\ stdout = <<>> /\ writes = <<>> /\ nodes = <<>> /\ found = none

\* generateCodeForOperation up to the first forEach
BeginCode ==
  /\ pc = "start"
  /\ LET returnType == bareTypeName(operation.astValue.type) IN
     IF returnType \in DOMAIN types
       THEN /\ code' = Append(codeHead(operation), <<"{">>)
            /\ stack' = << [fields |-> types[returnType], depth |-> 0] >>
            /\ pc' = "select"
       ELSE /\ code' = codeHead(operation)
            /\ stack' = <<>>
            /\ pc' = "finish"
  /\ UNCHANGED <<argv, schema, requests, stdout, fs, cwd0, writes, nodes, found,
                 operation, types, maxFieldsSelectionDepth, text>>

\* the forEach on top of the stack calls selectFields on its next field
SelectFieldsCall ==
  /\ pc = "select"
  /\ LET top == stack[Len(stack)]
         below == SubSeq(stack, 1, Len(stack) - 1)
     IN /\ top.fields # <<>>
        /\ LET field == Head(top.fields)
               fieldType == bareTypeName(field.type)
               advanced == Append(below, [top EXCEPT !.fields = Tail(top.fields)])
           IN IF fieldType \in DOMAIN types /\ belowMaxDepth(top.depth, maxFieldsSelectionDepth)
                THEN /\ Len(stack) < MaxStack
                     /\ code' = code \o << field.name, <<"{">> >>
                     /\ stack' = Append(advanced, [fields |-> types[fieldType],
                                                   depth |-> top.depth + 1])
                ELSE /\ code' = Append(code, field.name)
                     /\ stack' = advanced
  /\ UNCHANGED <<pc, argv, schema, requests, stdout, fs, cwd0, writes, nodes, found,
                 operation, types, maxFieldsSelectionDepth, text>>

\* the forEach on top of the stack has visited all its fields: the block is closed
ForEachReturn ==
  /\ pc = "select"
  /\ stack[Len(stack)].fields = <<>>
  /\ code' = Append(code, <<"}">>)
  /\ stack' = SubSeq(stack, 1, Len(stack) - 1)
  /\ pc' = IF Len(stack) = 1 THEN "finish" ELSE "select"
  /\ UNCHANGED <<argv, schema, requests, stdout, fs, cwd0, writes, nodes, found,
                 operation, types, maxFieldsSelectionDepth, text>>

\* generateCodeForOperation after the fields selection
FinishCode ==
  /\ pc = "finish"
  /\ LET lines == code \o codeTail IN
     code' = lines /\ text' = prettierFormat(join(lines, <<"\n">>))
  /\ pc' = "done"
  /\ UNCHANGED <<argv, schema, requests, stdout, fs, cwd0, writes, nodes, found,
                 operation, types, maxFieldsSelectionDepth, stack>>

NextSelect == BeginCode \/ SelectFieldsCall \/ ForEachReturn \/ FinishCode

\* the steps up to the return of the outermost forEach
Recursion == BeginCode \/ SelectFieldsCall \/ ForEachReturn

\* the code is synchronous: a call that can proceed does
SpecSelect == InitSelect /\ [][NextSelect]_vars /\ WF_vars(Recursion)

\* how many times in a row, from the fields of a block down, the field
\* called name is followed by a block
RECURSIVE Expansions(_, _)
Expansions(fields, name) ==
  IF \E i \in DOMAIN fields : fields[i].name = name /\ fields[i].block
  THEN 1 + Expansions(fields[CHOOSE i \in DOMAIN fields : fields[i].name = name].fields, name)
  ELSE 0

\* every field of the returned type whose type is that same type is
\* expanded once per depth below the maximum
SelfReferenceExpanded ==
  LET returnType == getTypeName(operation.astValue.type, FALSE) IN
  returnType \in DOMAIN types =>
    \A i \in DOMAIN types[returnType] :
      getTypeName(types[returnType][i].type, FALSE) = returnType =>
        Expansions(rootField.fields, types[returnType][i].name) = maxFieldsSelectionDepth

\* C10: the recursion ends for every catalog, cyclic ones included, with
\* never more calls in progress than the maximum depth allows, and a type
\* that refers to itself is expanded at every depth below the maximum.
C10_TerminatesByDepthAlone ==
  /\ <>(pc \in {"finish", "done"})
  /\ [](Len(stack) <= maxFieldsSelectionDepth + 1)
  /\ [](pc = "done" => SelfReferenceExpanded)

\* C10 witness: a self-referential type was expanded twice under the default depth
C10_Witness ==
  /\ pc = "done" /\ maxFieldsSelectionDepth = DefaultMaxDepth
  /\ getTypeName(operation.astValue.type, FALSE) = tA
  /\ \E i \in DOMAIN types[tA] : types[tA][i] = fieldA
  /\ Expansions(rootField.fields, fieldA.name) = 2

====
